---- MODULE Spec2Model ----
(***************************************************************************)
(* Podha Twitter Listener: the deduplicated ingestion-and-delivery         *)
(* pipeline (src/src/index.js) and its delivery store                      *)
(* (src/src/services/tweetStorage.js).                                     *)
(*                                                                         *)
(* Spec      : concurrent calls of PodhaTwitterListener.runWorkflow, one   *)
(*             action per segment between two awaits.                      *)
(* FairSpec  : Spec with weak fairness on the steps of a started run.      *)
(* StoreSpec : clients of the TweetStorage API (saveTweet, markAsNotified, *)
(*             markAsSent, wasSent) on the same table.                     *)
(* RateSpec  : callers of the RateLimiter singleton                        *)
(*             (src/src/services/rateLimiter.js) and the clock.            *)
(* TimedSpec : the fetch loop and the delivery loop of runWorkflow with    *)
(*             the clock and the rate limiter; records are counted.        *)
(* MainSpec  : the process started by main(): start(), the eager run, the  *)
(*             scheduler's ticks and process.exit.                         *)
(* QuerySpec : FilterEngine.getSearchQueries (src/unnamed/part_004) over   *)
(*             the configured and one custom filter, simplifyQuery, and    *)
(*             the request each strategy builds for each query.            *)
(* SearchSpec: calls of TwitterScraper.searchTweets (src/unnamed/part_002) *)
(*             against live sources that answer or fail; FairSearchSpec    *)
(*             adds weak fairness on its attempts and timers.              *)
(***************************************************************************)
EXTENDS Integers, Sequences, FiniteSets, TLC

\* ----- bounds ------------------------------------------------------------
\* concurrent invocations of runWorkflow (eager run, scheduler ticks)
MaxCalls == 2
\* query strings searched per run (getSearchQueries yields up to 8)
NumQueries == 2
\* records returned by one searchTweets call
MaxBatch == 1

\* ceiling of the discord entry of RateLimiter.limits, scaled down from 50
MaxRequests == 2
\* window of the discord entry of RateLimiter.limits in clock ticks, scaled
\* down from 60 ticks of 1000 ms
WindowTicks == 3
\* last tick of the clock in RateSpec
MaxTime == 5
\* last tick of the clock in TimedSpec
MaxRunTime == 8
\* words of the query of a filter added with addCustomFilter
MaxWords == 3
\* records found by one searchTweets call in TimedSpec
MaxFound == 2
\* items one extraction finds in a page
MaxItems == 2

Calls == 1..MaxCalls

NULL == "NULL"

\* record ids: one id of a row inserted by insertSampleData, one id that has
\* no row in a fresh database
Ids == {"sample_tweet_1", "t1"}
Texts == {"a", "b"}

\* A scraped record (part_002:371-378, 410-418, 283-292) carries id, text,
\* author, url, timestamp, source, likes, retweets: it has no username and
\* no created_at.  A record built by a store client (part_000:106-116) has
\* both.  username stands for the pair of NOT NULL columns username and
\* created_at, which a record has or lacks together.
\* Two texts for the id without a row tell two records of one id apart.
RecordKeys == {k \in [id : Ids, text : Texts] :
                 k.id = "sample_tweet_1" => k.text = "a"}
ScrapedRecords ==
  {[id |-> k.id, text |-> k.text, username |-> NULL] : k \in RecordKeys}
ClientRecords ==
  {[id |-> k.id, text |-> k.text, username |-> u] :
     k \in RecordKeys, u \in {"testuser", NULL}}

\* tweetData = null
NoData == [id |-> NULL, text |-> NULL, username |-> NULL]

\* all lists of at most n scraped records
RECURSIVE SeqsUpTo(_)
SeqsUpTo(n) ==
  IF n = 0 THEN {<<>>}
  ELSE LET shorter == SeqsUpTo(n - 1)
       IN shorter \cup {Append(s, r) : s \in {q \in shorter : Len(q) = n - 1},
                                       r \in ScrapedRecords}

Batches == SeqsUpTo(MaxBatch)

VARIABLES
  tweetsTable,   \* rows of the SQLite table tweets, in insertion order
  isRunning,     \* PodhaTwitterListener.isRunning
  pc,            \* per call: the await the call is suspended at, or idle
  lastOutcome,   \* how the latest call of runWorkflow to end has ended
  frame,         \* per call: the locals of runWorkflow / filterNewTweets
  env,           \* process.env as read by the constructors
  delivered,     \* history: ids posted to the sink and then marked
  client,        \* StoreSpec: the store client's operation in flight
  sentOnce,      \* StoreSpec: records r with a resolved markAsSent(r.id, r)
  now,           \* Date.now(), in ticks of 1000 ms
  requests,      \* RateLimiter.requests: Map from key to timestamp list
  lastCall,      \* RateSpec: the latest rate limiter call to return
  waiter,        \* RateSpec: the waitForLimit call suspended in delay
  burst,         \* history: per key, the checkLimit calls made since a
                 \* call last found the window of the key empty
  timed,         \* TimedSpec: the await runWorkflow is suspended at, its
                 \* counters and the time its timer fires
  posts,         \* history: times of the sendTweet calls in the last window
  fetches,       \* history: times of the searchTweets calls in the last
                 \* window
  search,        \* SearchSpec: the TwitterScraper fields read by
                 \* searchTweets, the call in flight and what it met
  proc,          \* MainSpec: how far main() has got, and the variables of
                 \* process.env it has read
  simp           \* QuerySpec: FilterEngine.filters, the list made by
                 \* getSearchQueries with the keywords joined for each
                 \* filter, and the request built for a query

vars == <<tweetsTable, isRunning, pc, lastOutcome, frame, env, delivered,
          client, sentOnce, now, requests, lastCall, waiter, burst,
          timed, posts, fetches, search, proc, simp>>

pipelineVars == <<isRunning, pc, lastOutcome, frame, delivered>>
clientVars == <<client, sentOnce>>
limiterVars == <<now, requests, lastCall, waiter, burst>>
appVars == <<tweetsTable, env, pipelineVars, clientVars>>
timedVars == <<timed, posts, fetches>>
scraperVars == <<search>>
extraVars == <<proc, simp>>
otherVars == <<limiterVars, timedVars, scraperVars, extraVars>>

\* ----- TweetStorage ------------------------------------------------------

\* insertSampleData: INSERT OR IGNORE of the sample rows; notified defaults
\* to 0
SampleRows ==
  <<[id |-> "sample_tweet_1", text |-> "a", username |-> "tech_news",
     notified |-> 0]>>

RowsOf(rows, tweetId) == {i \in 1..Len(rows) : rows[i].id = tweetId}

Min(S) == CHOOSE x \in S : \A y \in S : x <= y

\* wasSent: SELECT notified FROM tweets WHERE id = ?;
\* resolve(row ? row.notified === 1 : false)
wasSent(rows, tweetId) ==
  IF RowsOf(rows, tweetId) = {} THEN FALSE
  ELSE rows[Min(RowsOf(rows, tweetId))].notified = 1

\* the NOT NULL constraints of the table on the columns saveTweet binds
\* from the record without a default
ViolatesNotNull(tweet) == tweet.username = NULL

InsertDuplicate(rows, tweet) ==
  Append(rows, [id |-> tweet.id, text |-> tweet.text,
                username |-> tweet.username, notified |-> 0])

\* saveTweet: INSERT OR REPLACE INTO tweets (... no notified column ...):
\* the row of the same primary key is deleted, the new row gets the column
\* default notified = 0
InsertOrReplace(rows, tweet) ==
  Append(SelectSeq(rows, LAMBDA r : r.id # tweet.id),
         [id |-> tweet.id, text |-> tweet.text,
          username |-> tweet.username, notified |-> 0])

UpdateNothing(rows, tweetId) == rows

\* markAsNotified: UPDATE tweets SET notified = 1 WHERE id = ?
UpdateNotified(rows, tweetId) ==
  [i \in 1..Len(rows) |->
     IF rows[i].id = tweetId THEN [rows[i] EXCEPT !.notified = 1]
     ELSE rows[i]]

\* ----- RateLimiter -------------------------------------------------------

\* this.limits: the ceilings and windows are scaled down and keep their
\* order: twitter has the lowest ceiling (one request) and the longest
\* window; the discord window is longer than ceiling times the 1000 ms
\* between two deliveries (50 requests in 60 ticks)
limits ==
  [twitter |-> [requests |-> 1, window |-> WindowTicks + 1],
   discord |-> [requests |-> MaxRequests, window |-> MaxRequests + 1],
   nitter |-> [requests |-> MaxRequests, window |-> WindowTicks]]

\* if (!limit): a service without an entry in this.limits
HasLimit(service) == service \in DOMAIN limits

\* the services the callers name: two configured ones and one without limit
CalledServices == {"twitter", "discord", "telegram"}
Identifiers == {"default"}

\* const key = `${service}:${identifier}`
KeyOf(service, identifier) == <<service, identifier>>

LimitedKeys ==
  {KeyOf(s, i) : s \in {t \in CalledServices : HasLimit(t)}, i \in Identifiers}

FailClosed == "false"

\* checkLimit of a service without a limit: return true
FailOpen == "true"

\* this.requests.get(key) || []
HistoryOf(key) == IF key \in DOMAIN requests THEN requests[key] ELSE <<>>

\* this.requests.set(key, value)
MapSet(map, key, value) ==
  [k \in DOMAIN map \cup {key} |-> IF k = key THEN value ELSE map[k]]

\* this.requests.delete(key)
MapDelete(map, key) == [k \in DOMAIN map \ {key} |-> map[k]]

AllRequests(history, windowStart) == history

\* requestHistory.filter(timestamp => timestamp > windowStart)
ValidRequests(history, windowStart) ==
  SelectSeq(history, LAMBDA timestamp : timestamp > windowStart)

OverCapacity(validRequests, limit) == Len(validRequests) > limit.requests

\* if (validRequests.length >= limit.requests)
AtCapacity(validRequests, limit) == Len(validRequests) >= limit.requests

RecordRefused(validRequests, at) == Append(validRequests, at)

\* the list stored by a refused checkLimit: the pruned history
Refused(validRequests, at) == validRequests

\* validRequests.push(now)
Admitted(validRequests, at) == Append(validRequests, at)

\* Math.min(...validRequests)
SeqMin(list) == Min({list[i] : i \in 1..Len(list)})

NoWait(service, identifier) == 0

\* waitForLimit: the delay it awaits, 0 when it returns at once
WaitTime(service, identifier) ==
  IF ~HasLimit(service) THEN 0
  ELSE LET limit == limits[service]
           validRequests == ValidRequests(HistoryOf(KeyOf(service, identifier)),
                                          now - limit.window)
       IN IF AtCapacity(validRequests, limit)
          THEN LET waitTime == SeqMin(validRequests) + limit.window - now
               IN IF waitTime > 0 THEN waitTime ELSE 0
          ELSE 0

\* alone: no checkLimit was made on the service of a waitForLimit call
\* between its start and its return
NoCall == [op |-> "none", service |-> NULL, result |-> "none",
           full |-> FALSE, expired |-> FALSE, alone |-> FALSE]
NoWaiter == [service |-> NULL, until |-> 0, alone |-> FALSE]
NoBurst == [start |-> 0, last |-> 0, results |-> <<>>]

\* new RateLimiter(): an empty Map; the clock starts at tick 0
LimiterAtRest ==
  /\ now = 0
  /\ requests = <<>>
  /\ lastCall = NoCall
  /\ waiter = NoWaiter
  /\ burst = [k \in LimitedKeys |-> NoBurst]

\* ----- TwitterScraper ----------------------------------------------------
\* part_002 holds two TwitterScraper modules: the one of lines 1-503, whose
\* strategies fall back to demo records, and the one of lines 1147-1371
\* ("FIXED VERSION"), whose strategies rethrow.  Which of them
\* ./services/twitterScraper resolves to is not decided by the sources, so
\* the variant is chosen when the scraper is constructed.  searchTweets is
\* the same in both.
Variants == {"fallback", "fixed"}

\* parseInt(process.env.MAX_RETRIES): not a number when unset, else a count
ParsedRetries == {"NaN", "0", "1", "2"}

DefaultMaxRetries == 3

\* this.maxRetries = parseInt(process.env.MAX_RETRIES) || 3
MaxRetriesOf(parsed) ==
  CASE parsed = "NaN" -> DefaultMaxRetries
    [] parsed = "0" -> DefaultMaxRetries
    [] parsed = "1" -> 1
    [] parsed = "2" -> 2

\* the href of the .tweet-link of a Nitter timeline item: the link of a
\* status, or a link without /status/ and digits
Links == {"/user/status/1", "/user/photo/1"}

\* the hrefs of the items of a Nitter page that have text, author and link
LinkLists == UNION {[1..n -> Links] : n \in 0..MaxItems}

\* what one attempt meets: the browser page (closed, navigation error,
\* login wall, or loaded with the items the two extractions find) and the
\* Nitter instance (request error, or a page with items and their links)
Worlds ==
  {w \in [page : {"closed", "error", "login", "loaded"},
          m1 : 0..MaxItems, m2 : 0..MaxItems,
          nitterOk : BOOLEAN, items : 0..MaxItems, links : LinkLists] :
     /\ w.page # "loaded" => (w.m1 = 0 /\ w.m2 = 0)
     /\ ~w.nitterOk => w.items = 0
     /\ Len(w.links) = w.items}

NoWorld == [page |-> "closed", m1 |-> 0, m2 |-> 0, nitterOk |-> FALSE,
            items |-> 0, links |-> <<>>]

\* an id made in the page or by createDemoTweets: 'tweet_<time>_<index>',
\* the last segment of the link of the time element, 'demo_<time>_<k>'
MadeId == "made"

\* a returned list: its length, the source tag and the ids of its records
List(n, source) ==
  [kind |-> "list", count |-> n, source |-> source,
   ids |-> [i \in 1..n |-> MadeId]]
\* a thrown error
Thrown(message) ==
  [kind |-> "error", count |-> 0, source |-> message, ids |-> <<>>]
\* the value of a function that falls off its end
Undefined == [kind |-> "undefined", count |-> 0, source |-> NULL,
              ids |-> <<>>]
NoResult == [kind |-> "none", count |-> 0, source |-> NULL, ids |-> <<>>]

\* extractTweetId(tweetLink): the digits after /status/, or null
extractTweetId(tweetLink) ==
  IF tweetLink = "/user/status/1" THEN "1" ELSE NULL

\* the list searchWithNitter builds from the items of the page
NitterList(links) ==
  [List(Len(links), "nitter") EXCEPT
     !.ids = [i \in 1..Len(links) |-> extractTweetId(links[i])]]

DemoCount == 3

noDemoTweets == List(0, "demo")

\* createDemoTweets(query): three records with source 'demo'
createDemoTweets == List(DemoCount, "demo")

\* searchWithNitter(query)
searchWithNitter(variant, w) ==
  IF variant = "fallback"
  THEN IF ~w.nitterOk THEN createDemoTweets
       ELSE IF w.items = 0 THEN createDemoTweets
       ELSE NitterList(w.links)
  ELSE IF ~w.nitterOk THEN Thrown("nitter")
       ELSE NitterList(w.links)

\* searchWithPuppeteer(query)
searchWithPuppeteer(variant, w) ==
  IF variant = "fallback"
  THEN IF w.page # "loaded" THEN searchWithNitter(variant, w)
       ELSE IF w.m1 > 0 THEN List(w.m1, "puppeteer")
       ELSE IF w.m2 > 0 THEN List(w.m2, "puppeteer_fallback")
       ELSE searchWithNitter(variant, w)
  ELSE IF w.page # "loaded" THEN Thrown("puppeteer")
       ELSE List(w.m1, "puppeteer")

\* the body of the try of searchTweets
Attempt(variant, useNitter, w) ==
  IF useNitter THEN searchWithNitter(variant, w)
  ELSE searchWithPuppeteer(variant, w)

\* while (retries < this.maxRetries)
LoopGuard(retries, maxRetries) == retries < maxRetries

ExhaustedLate(retries, maxRetries) == retries > maxRetries

\* if (retries >= this.maxRetries) throw error
Exhausted(retries, maxRetries) == retries >= maxRetries

BackoffBaseMs == 2000

\* delay(2000 * retries)
BackoffMs(retries) == BackoffBaseMs * retries

\* new TwitterScraper(): no searchTweets call yet
NewScraper(variant, useNitter, parsed) ==
  [variant |-> variant, useNitter |-> useNitter,
   maxRetries |-> MaxRetriesOf(parsed), pc |-> "idle", retries |-> 0,
   attempts |-> 0, waits |-> <<>>, result |-> NoResult, world |-> NoWorld]

\* the scraper of a process.env that sets nothing
ScraperAtRest == search = NewScraper("fallback", FALSE, "NaN")

\* ----- FilterEngine and simplifyQuery --------------------------------------
\* A query string is a sequence of lexemes: Space, Quote, "(", ")" and
\* words without any of them, such as "AND" or "filter:blue_verified".
Space == " "
Quote == "\""

\* Array.prototype.join
RECURSIVE Join(_, _)
Join(terms, sep) ==
  IF terms = <<>> THEN <<>>
  ELSE IF Len(terms) = 1 THEN terms[1]
  ELSE terms[1] \o <<sep>> \o Join(Tail(terms), sep)

FilterTokens == <<"filter:blue_verified">> \o <<Space>> \o <<"min_faves:3">>

\* FilterEngine.filters as the constructor sets it
ConfiguredQueries ==
  << FilterTokens \o <<Space, "Podha", Space, "AND", Space,
       "(", Quote, "RWA", Quote, Space, "OR", Space,
       Quote, "Real", Space, "World", Space, "Assets", Quote, Space, "OR",
       Space, Quote, "Yield", Quote, ")">>,
     FilterTokens \o <<Space, "Solana", Space, "AND", Space,
       "(", Quote, "Smart", Space, "Vaults", Quote, Space, "OR", Space,
       Quote, "Safe", Space, "Yield", Quote, Space, "OR", Space,
       Quote, "Podha", Quote, ")">>,
     FilterTokens \o <<Space, "Bitcoin", Space, "AND", Space,
       "(", Quote, "tokenized", Space, "treasury", Quote, Space, "OR", Space,
       Quote, "credit", Space, "protocol", Quote, Space, "OR", Space,
       Quote, "RWA", Space, "on-chain", Quote, ")">>,
     FilterTokens \o <<Space, "DeFi", Space, "AND", Space,
       "(", Quote, "custodial", Space, "vault", Quote, Space, "OR", Space,
       Quote, "delta", Space, "neutral", Quote, ")">> >>

\* whitespace-delimited words a custom query is made of
CustomWords ==
  { <<"filter:blue_verified">>, <<"AND">>, <<"Main">>,
    <<Quote, "A", Quote>>, <<"(", Quote, "A">>, <<"B", Quote, ")">> }

\* the word lists of at most n words
RECURSIVE WordListsUpTo(_)
WordListsUpTo(n) ==
  IF n = 0 THEN {<<>>}
  ELSE LET shorter == WordListsUpTo(n - 1)
       IN shorter \cup {Append(l, w) : l \in {q \in shorter : Len(q) = n - 1},
                                       w \in CustomWords}

\* the query argument of addCustomFilter, which is not validated
CustomQueries == {Join(l, Space) : l \in WordListsUpTo(MaxWords)}

\* query.match(/"([^"]+)"/g) with the quotes of each match removed: from
\* position i on, the next quote opens a match that the quote after it
\* closes unless nothing lies between the two
RECURSIVE QuotedTermsFrom(_, _)
QuotedTermsFrom(query, i) ==
  LET quotes == {k \in i..Len(query) : query[k] = Quote}
  IN IF quotes = {} THEN <<>>
     ELSE LET open == Min(quotes)
              later == {k \in quotes : k > open}
          IN IF later = {} THEN <<>>
             ELSE LET close == Min(later)
                  IN IF close = open + 1
                     THEN QuotedTermsFrom(query, close)
                     ELSE <<SubSeq(query, open + 1, close - 1)>>
                            \o QuotedTermsFrom(query, close + 1)

QuotedTerms(query) == QuotedTermsFrom(query, 1)

\* query.split(/\s+/): a run of spaces separates two words; the list has
\* an empty word for the empty string and at a leading or trailing space
RECURSIVE SplitFrom(_, _, _, _)
SplitFrom(query, i, word, words) ==
  IF i > Len(query) THEN Append(words, word)
  ELSE IF query[i] = Space
  THEN IF i > 1 /\ query[i - 1] = Space
       THEN SplitFrom(query, i + 1, word, words)
       ELSE SplitFrom(query, i + 1, <<>>, Append(words, word))
  ELSE SplitFrom(query, i + 1, Append(word, query[i]), words)

Split(query) == SplitFrom(query, 1, <<>>, <<>>)

\* the test of the forEach over the words: a non-filter word
IsMainTerm(word) ==
  /\ ~ \E k \in 1..Len(word) : word[k] = "filter:blue_verified"
  /\ ~ \E k \in 1..Len(word) : word[k] = "min_faves:3"
  /\ word \notin {<<"AND">>, <<"OR">>, <<"(">>, <<")">>}
  /\ ~ (Len(word) > 0 /\ word[1] = Quote)

\* the list keywords before the slice: the quoted terms, then the words
Keywords(query) == QuotedTerms(query) \o SelectSeq(Split(query), IsMainTerm)

NoSlice(list, n) == list

\* keywords.slice(0, n)
slice(list, n) == SubSeq(list, 1, IF Len(list) < n THEN Len(list) ELSE n)

\* the limit of TwitterScraper.simplifyQuery and of FilterEngine.simplifyQuery
ScraperCap == 3
FilterCap == 2

\* the keywords TwitterScraper.simplifyQuery joins
scraperTerms(query) == slice(Keywords(query), ScraperCap)

\* TwitterScraper.simplifyQuery
simplifyQuery(query) == Join(scraperTerms(query), Space)

\* the keywords FilterEngine.simplifyQuery joins
filterTerms(query) == slice(Keywords(query), FilterCap)

\* FilterEngine.simplifyQuery
filterSimplifyQuery(query) == Join(filterTerms(query), Space)

\* [...new Set(queries)]: the first occurrence of every string, in order
RECURSIVE UniqueFrom(_, _)
UniqueFrom(list, seen) ==
  IF list = <<>> THEN <<>>
  ELSE IF Head(list) \in seen THEN UniqueFrom(Tail(list), seen)
  ELSE <<Head(list)>> \o UniqueFrom(Tail(list), seen \cup {Head(list)})

\* FilterEngine.getSearchQueries: per filter its query and the simplified
\* query, duplicates removed
RECURSIVE ExpandFilters(_)
ExpandFilters(filters) ==
  IF filters = <<>> THEN <<>>
  ELSE <<Head(filters), filterSimplifyQuery(Head(filters))>>
         \o ExpandFilters(Tail(filters))

getSearchQueries(filters) == UniqueFrom(ExpandFilters(filters), {})

\* encodeURIComponent of one lexeme
EncodeLexeme(lexeme) ==
  CASE lexeme = Space -> "%20"
    [] lexeme = Quote -> "%22"
    [] lexeme = "filter:blue_verified" -> "filter%3Ablue_verified"
    [] lexeme = "min_faves:3" -> "min_faves%3A3"
    [] OTHER -> lexeme

encodeURIComponent(text) == [k \in 1..Len(text) |-> EncodeLexeme(text[k])]

\* no request built yet
NoRequest == [built |-> FALSE, strategy |-> "none", query |-> <<>>,
              terms |-> <<>>, simplified |-> <<>>, q |-> <<>>,
              again |-> FALSE, demoQuery |-> <<>>]

\* the request searchWithNitter or searchWithPuppeteer builds for query: the
\* first module simplifies the query, the second sends it as it is; when
\* axios.get rejects, the catch of the first searchWithNitter simplifies the
\* query a second time for createDemoTweets
RequestFor(variant, useNitter, query, rejected) ==
  LET simplified == IF variant = "fallback" THEN simplifyQuery(query)
                    ELSE query
  IN [built |-> TRUE,
      strategy |-> IF useNitter THEN "nitter" ELSE "puppeteer",
      query |-> query,
      terms |-> IF variant = "fallback" THEN scraperTerms(query) ELSE <<>>,
      simplified |-> simplified,
      q |-> encodeURIComponent(simplified),
      again |-> variant = "fallback" /\ useNitter /\ rejected,
      demoQuery |-> IF variant = "fallback" /\ useNitter /\ rejected
                    THEN simplifyQuery(query) ELSE <<>>]

\* new FilterEngine() and new TwitterScraper() of a build
NewFilterEngine(variant, useNitter) ==
  [variant |-> variant, useNitter |-> useNitter,
   filters |-> ConfiguredQueries, expanded |-> FALSE, queries |-> <<>>,
   terms |-> <<>>, queryIdx |-> 0, request |-> NoRequest]

\* ----- PodhaTwitterListener ----------------------------------------------

RECURSIVE removeDuplicatesFrom(_, _)
removeDuplicatesFrom(list, seen) ==
  IF list = <<>> THEN <<>>
  ELSE IF Head(list).id \in seen
       THEN removeDuplicatesFrom(Tail(list), seen)
       ELSE <<Head(list)>> \o
            removeDuplicatesFrom(Tail(list), seen \cup {Head(list).id})

RECURSIVE keepLastOccurrence(_)
keepLastOccurrence(list) ==
  IF list = <<>> THEN <<>>
  ELSE IF \E j \in 2..Len(list) : list[j].id = Head(list).id
       THEN keepLastOccurrence(Tail(list))
       ELSE <<Head(list)>> \o keepLastOccurrence(Tail(list))

\* removeDuplicates: filter with a Set of the ids seen so far
removeDuplicates(list) == removeDuplicatesFrom(list, {})

KeepAll(sent) == TRUE

\* filterNewTweets: if (!wasSent) newTweets.push(tweet)
KeepTweet(sent) == ~sent

NeverRunning == FALSE

\* runWorkflow: if (this.isRunning) { warn; return; }
AlreadyRunning == isRunning

ClearOnSuccess(res) == res # "returned"

\* runWorkflow: finally { this.isRunning = false; }
FinallyFlag(res) == FALSE

Swallow(error) == "returned"

\* runWorkflow: catch (error) { logger.error(...); throw error; }
Rethrow(error) == error

logTweetRethrows(failed) == IF failed THEN "rejected" ELSE "resolved"

\* AirtableLogger.logTweet: try { await axios.post(...) } catch (error)
\* { logger.error(...) }: the promise resolves whether the post failed or not
airtableLogTweet(failed) == "resolved"

\* NotionLogger.logTweet: try { await this.notion.pages.create(...) }
\* catch (error) { logger.error(...) }
notionLogTweet(failed) == "resolved"

\* storeAtStart, sends and logErrors are history: the table when the run
\* started (kept until the delivery loop), the sendTweet calls of the run,
\* the loggers that have logged an error for the record before the one
\* that waitForLimit is awaited for
IdleFrame ==
  [queryIdx |-> 0, allTweets |-> <<>>, uniqueTweets |-> <<>>,
   newTweets |-> <<>>, tweetIdx |-> 0, sendResult |-> "none",
   sentBefore |-> {}, storeAtStart |-> <<>>, sends |-> 0,
   logErrors |-> {}]

Active == {c \in Calls : pc[c] # "idle"}

\* process.env.DISCORD_WEBHOOK_URL: not set, the value of the sample .env,
\* or a webhook URL
RawWebhooks == {"unset", "placeholder", "url"}

\* DiscordNotifier.validateWebhookUrl: a missing or placeholder URL is
\* logged and replaced by null
validateWebhookUrl(raw) ==
  IF raw = "unset" \/ raw = "placeholder" THEN NULL ELSE "configured"

\* the listener is driven by its callers, not by main()
NoProcess == [state |-> "none", scheduler |-> FALSE, rawWebhook |-> NULL]

\* the listener and the store after initialize(): no run, no client call
ListenerAtRest ==
  /\ tweetsTable = SampleRows
  /\ isRunning = FALSE
  /\ pc = [c \in Calls |-> "idle"]
  /\ lastOutcome = "none"
  /\ frame = [c \in Calls |-> IdleFrame]
  /\ delivered = {}
  /\ client = [op |-> "none", id |-> NULL, data |-> NoData,
               status |-> "none", faulted |-> FALSE, repeat |-> FALSE]
  /\ sentOnce = {}

\* a process.env that sets none of the variables read
EmptyEnv ==
  [webhookUrl |-> NULL, airtableEnabled |-> FALSE, notionEnabled |-> FALSE]

TimedIdle == [pc |-> "idle", queryIdx |-> 0, found |-> 0, left |-> 0,
              until |-> 0]

\* no run of the timed loops yet
TimedAtRest ==
  /\ timed = TimedIdle
  /\ posts = <<>>
  /\ fetches = <<>>

Init ==
  /\ ListenerAtRest
  /\ env \in [webhookUrl : {NULL, "configured"},
              airtableEnabled : BOOLEAN, notionEnabled : BOOLEAN]
  /\ LimiterAtRest
  /\ TimedAtRest
  /\ ScraperAtRest
  /\ proc = NoProcess
  /\ simp = NewFilterEngine("fallback", TRUE)

\* the run of call c ends with res: return value or thrown error; the
\* locals are discarded
EndRun(c, res) ==
  /\ isRunning' = FinallyFlag(res)
  /\ pc' = [pc EXCEPT ![c] = "idle"]
  /\ lastOutcome' = res
  /\ frame' = [frame EXCEPT ![c] = IdleFrame]

Goto(c, label, f) ==
  /\ pc' = [pc EXCEPT ![c] = label]
  /\ frame' = [frame EXCEPT ![c] = f]
  /\ UNCHANGED <<isRunning, lastOutcome>>

\* a call that finds isRunning set logs and returns
RunWorkflowSkip(c) ==
  /\ pc[c] = "idle"
  /\ AlreadyRunning
  /\ lastOutcome' = "skipped"
  /\ UNCHANGED <<tweetsTable, isRunning, pc, frame, env, delivered>>
  /\ UNCHANGED <<clientVars, otherVars>>

\* isRunning = true; queries = getSearchQueries(); first searchTweets issued
RunWorkflowStart(c) ==
  /\ pc[c] = "idle"
  /\ ~AlreadyRunning
  /\ isRunning' = TRUE
  /\ pc' = [pc EXCEPT ![c] = "searchTweets"]
  /\ UNCHANGED lastOutcome
  /\ frame' = [frame EXCEPT ![c] = [IdleFrame EXCEPT
                                      !.queryIdx = 1,
                                      !.storeAtStart = tweetsTable]]
  /\ UNCHANGED <<tweetsTable, env, delivered>>
  /\ UNCHANGED <<clientVars, otherVars>>

\* await searchTweets(query): a list of records, or the error of the last
\* retry
SearchTweets(c) ==
  /\ pc[c] = "searchTweets"
  /\ \/ \E batch \in Batches :
          Goto(c, "queryDelay",
               [frame[c] EXCEPT !.allTweets = frame[c].allTweets \o batch])
     \/ EndRun(c, Rethrow("FetchExhaustedError"))
  /\ UNCHANGED <<tweetsTable, env, delivered>>
  /\ UNCHANGED <<clientVars, otherVars>>

\* await delay(REQUEST_DELAY_MS); next query, or removeDuplicates and the
\* first wasSent of filterNewTweets, or the return on an empty list
QueryDelay(c) ==
  /\ pc[c] = "queryDelay"
  /\ LET f == frame[c]
         unique == removeDuplicates(f.allTweets)
     IN IF f.queryIdx < NumQueries
        THEN Goto(c, "searchTweets", [f EXCEPT !.queryIdx = f.queryIdx + 1])
        ELSE IF unique = <<>>
             THEN EndRun(c, "returned")
             ELSE Goto(c, "wasSent",
                       [f EXCEPT !.uniqueTweets = unique, !.tweetIdx = 1,
                                 !.sentBefore =
                                   {i \in Ids : wasSent(tweetsTable, i)}])
  /\ UNCHANGED <<tweetsTable, env, delivered>>
  /\ UNCHANGED <<clientVars, otherVars>>

\* filterNewTweets: await wasSent(tweet.id) for the next record; after the
\* last one, the return on an empty list or the first waitForLimit.  The
\* delivery loop reads newTweets only: the other locals are dead from there
\* on and are dropped.
WasSent(c) ==
  /\ pc[c] = "wasSent"
  /\ LET f == frame[c]
         tweet == f.uniqueTweets[f.tweetIdx]
         pushed == IF KeepTweet(wasSent(tweetsTable, tweet.id))
                   THEN Append(f.newTweets, tweet) ELSE f.newTweets
     IN \/ EndRun(c, Rethrow("PersistenceReadError"))
        \/ IF f.tweetIdx < Len(f.uniqueTweets)
           THEN Goto(c, "wasSent", [f EXCEPT !.newTweets = pushed,
                                             !.tweetIdx = f.tweetIdx + 1])
           ELSE IF pushed = <<>>
                THEN EndRun(c, "returned")
                ELSE Goto(c, "waitForLimit",
                          [IdleFrame EXCEPT !.newTweets = pushed,
                                            !.tweetIdx = 1])
  /\ UNCHANGED <<tweetsTable, env, delivered>>
  /\ UNCHANGED <<clientVars, otherVars>>

\* await rateLimiter.waitForLimit('discord'): no caller of the pipeline
\* records a request under the key discord:default, so the history read is
\* empty and the call returns without a delay
WaitForLimit(c) ==
  /\ pc[c] = "waitForLimit"
  /\ Goto(c, "sendTweet", [frame[c] EXCEPT !.logErrors = {}])
  /\ UNCHANGED <<tweetsTable, env, delivered>>
  /\ UNCHANGED <<clientVars, otherVars>>

\* await discordNotifier.sendTweet(tweet): {success:false} without a post
\* when the webhook is not configured, else the outcome of the post; the
\* returned object is dropped by runWorkflow
SendTweet(c) ==
  /\ pc[c] = "sendTweet"
  /\ \E posted \in BOOLEAN :
        /\ env.webhookUrl = NULL => ~posted
        /\ Goto(c, "markAsSent",
                [frame[c] EXCEPT !.sendResult =
                                   IF posted THEN "success" ELSE "failure",
                                 !.sends = @ + 1])
  /\ UNCHANGED <<tweetsTable, env, delivered>>
  /\ UNCHANGED <<clientVars, otherVars>>

SkipLoggers == "deliveryDelay"

\* the await after markAsSent: the enabled loggers, then the delay
AfterMark == IF env.airtableEnabled THEN "airtableLog"
             ELSE IF env.notionEnabled THEN "notionLog" ELSE "deliveryDelay"

\* await tweetStorage.markAsSent(tweet.id): tweetData is null, so only
\* markAsNotified runs; a rejection is thrown out of runWorkflow
MarkAsSent(c) ==
  /\ pc[c] = "markAsSent"
  /\ LET f == frame[c]
         tweet == f.newTweets[f.tweetIdx]
     IN \/ /\ EndRun(c, Rethrow("PersistenceWriteError"))
           /\ UNCHANGED <<tweetsTable, delivered>>
        \/ /\ tweetsTable' = UpdateNotified(tweetsTable, tweet.id)
           /\ delivered' = IF f.sendResult = "success"
                           THEN delivered \cup {tweet.id} ELSE delivered
           /\ Goto(c, AfterMark, f)
  /\ UNCHANGED env
  /\ UNCHANGED <<clientVars, otherVars>>

\* if (airtableLogger.enabled) await airtableLogger.logTweet(tweet): the
\* post fails or not; a rejection of logTweet would be thrown out of
\* runWorkflow
AirtableLog(c) ==
  /\ pc[c] = "airtableLog"
  /\ \E failed \in BOOLEAN :
        IF airtableLogTweet(failed) = "rejected"
        THEN EndRun(c, Rethrow("AirtableError"))
        ELSE Goto(c, IF env.notionEnabled THEN "notionLog"
                     ELSE "deliveryDelay",
                  [frame[c] EXCEPT !.logErrors =
                                     IF failed THEN @ \cup {"airtable"}
                                     ELSE @])
  /\ UNCHANGED <<tweetsTable, env, delivered>>
  /\ UNCHANGED <<clientVars, otherVars>>

\* if (notionLogger.enabled) await notionLogger.logTweet(tweet)
NotionLog(c) ==
  /\ pc[c] = "notionLog"
  /\ \E failed \in BOOLEAN :
        IF notionLogTweet(failed) = "rejected"
        THEN EndRun(c, Rethrow("NotionError"))
        ELSE Goto(c, "deliveryDelay",
                  [frame[c] EXCEPT !.logErrors =
                                     IF failed THEN @ \cup {"notion"}
                                     ELSE @])
  /\ UNCHANGED <<tweetsTable, env, delivered>>
  /\ UNCHANGED <<clientVars, otherVars>>

\* await delay(1000); next record, or the end of the run
DeliveryDelay(c) ==
  /\ pc[c] = "deliveryDelay"
  /\ LET f == frame[c]
     IN IF f.tweetIdx < Len(f.newTweets)
        THEN Goto(c, "waitForLimit", [f EXCEPT !.tweetIdx = f.tweetIdx + 1,
                                               !.sendResult = "none"])
        ELSE EndRun(c, "returned")
  /\ UNCHANGED <<tweetsTable, env, delivered>>
  /\ UNCHANGED <<clientVars, otherVars>>

RunStep(c) ==
  \/ SearchTweets(c)
  \/ QueryDelay(c)
  \/ WasSent(c)
  \/ WaitForLimit(c)
  \/ SendTweet(c)
  \/ MarkAsSent(c)
  \/ AirtableLog(c)
  \/ NotionLog(c)
  \/ DeliveryDelay(c)

Next ==
  \/ \E c \in Calls : RunWorkflowSkip(c)
  \/ \E c \in Calls : RunWorkflowStart(c)
  \/ \E c \in Calls : RunStep(c)

Spec == Init /\ [][Next]_vars

\* ----- clients of TweetStorage -------------------------------------------
\* One client at a time, as in the database test (part_000:101-120) and in
\* the n8n variant of the delivery loop (part_005:333-340): every call is
\* awaited before the next is made.  fault is an I/O error of the database
\* call (err in the callback).

ClientIdle == client.status # "pending"

Done(op, tweetId, data, status, fault) ==
  [op |-> op, id |-> tweetId, data |-> data, status |-> status,
   faulted |-> fault, repeat |-> (data \in sentOnce)]

\* saveTweet(tweet)
ClientSaveTweet ==
  /\ ClientIdle
  /\ \E tweet \in ClientRecords, fault \in BOOLEAN :
        IF fault \/ ViolatesNotNull(tweet)
        THEN /\ client' = Done("saveTweet", tweet.id, tweet, "rejected", fault)
             /\ UNCHANGED tweetsTable
        ELSE /\ client' = Done("saveTweet", tweet.id, tweet, "resolved", fault)
             /\ tweetsTable' = InsertOrReplace(tweetsTable, tweet)
  /\ UNCHANGED <<sentOnce, env>>
  /\ UNCHANGED <<pipelineVars, otherVars>>

\* markAsNotified(tweetId), and markAsSent(tweetId) with tweetData = null,
\* which only forwards to it
ClientMarkAsNotified ==
  /\ ClientIdle
  /\ \E tweetId \in Ids, fault \in BOOLEAN,
        op \in {"markAsNotified", "markAsSent"} :
        IF fault
        THEN /\ client' = Done(op, tweetId, NoData, "rejected", fault)
             /\ UNCHANGED tweetsTable
        ELSE /\ client' = Done(op, tweetId, NoData, "resolved", fault)
             /\ tweetsTable' = UpdateNotified(tweetsTable, tweetId)
  /\ UNCHANGED <<sentOnce, env>>
  /\ UNCHANGED <<pipelineVars, otherVars>>

\* markAsSent(tweet.id, tweet), first step: saveTweet(tweetData); its
\* rejection rejects markAsSent, its resolution issues markAsNotified
ClientMarkAsSentSave ==
  /\ ClientIdle
  /\ \E tweet \in ClientRecords, fault \in BOOLEAN :
        IF fault \/ ViolatesNotNull(tweet)
        THEN /\ client' = Done("markAsSent", tweet.id, tweet, "rejected",
                               fault)
             /\ UNCHANGED tweetsTable
        ELSE /\ client' = Done("markAsSent", tweet.id, tweet, "pending",
                               fault)
             /\ tweetsTable' = InsertOrReplace(tweetsTable, tweet)
  /\ UNCHANGED <<sentOnce, env>>
  /\ UNCHANGED <<pipelineVars, otherVars>>

\* markAsSent(tweet.id, tweet), second step: markAsNotified(tweetId)
ClientMarkAsSentNotify ==
  /\ client.op = "markAsSent"
  /\ client.status = "pending"
  /\ \E fault \in BOOLEAN :
        IF fault
        THEN /\ client' = [client EXCEPT !.status = "rejected",
                                          !.faulted = TRUE]
             /\ UNCHANGED <<tweetsTable, sentOnce>>
        ELSE /\ client' = [client EXCEPT !.status = "resolved"]
             /\ tweetsTable' = UpdateNotified(tweetsTable, client.id)
             /\ sentOnce' = sentOnce \cup {client.data}
  /\ UNCHANGED env
  /\ UNCHANGED <<pipelineVars, otherVars>>

\* wasSent(tweetId)
ClientWasSent ==
  /\ ClientIdle
  /\ \E tweetId \in Ids, fault \in BOOLEAN :
        client' = Done("wasSent", tweetId, NoData,
                       IF fault THEN "rejected"
                       ELSE IF wasSent(tweetsTable, tweetId) THEN "true"
                       ELSE "false", fault)
  /\ UNCHANGED <<tweetsTable, sentOnce, env>>
  /\ UNCHANGED <<pipelineVars, otherVars>>

StoreNext ==
  \/ ClientSaveTweet
  \/ ClientMarkAsNotified
  \/ ClientMarkAsSentSave
  \/ ClientMarkAsSentNotify
  \/ ClientWasSent

StoreSpec == Init /\ [][StoreNext]_vars

\* every await of a started run completes: the timers fire, the HTTP calls
\* have timeouts, the database calls call back
FairSpec == Spec /\ \A c \in Calls : WF_vars(RunStep(c))

\* ----- callers of the RateLimiter -----------------------------------------
\* rateLimiter.js exports one instance; its callers and the cleanup timer
\* run on one thread, so every call runs to its return or to its await.

\* the checkLimit calls on a key since a call last found its window empty,
\* up to the call after the ceiling
BurstAfter(key, limit, validRequests, result) ==
  IF validRequests = <<>>
  THEN [start |-> now, last |-> now, results |-> <<result>>]
  ELSE IF Len(burst[key].results) \in 1..limit.requests
       THEN [burst[key] EXCEPT !.last = now,
                               !.results = Append(@, result)]
       ELSE burst[key]

\* checkLimit(service, identifier)
CheckLimit(service, identifier) ==
  /\ LET key == KeyOf(service, identifier)
     IN IF ~HasLimit(service)
        THEN /\ lastCall' = [NoCall EXCEPT !.op = "checkLimit",
                                           !.service = service,
                                           !.result = FailOpen]
             /\ UNCHANGED <<requests, burst>>
        ELSE LET limit == limits[service]
                 windowStart == now - limit.window
                 requestHistory == HistoryOf(key)
                 validRequests == ValidRequests(requestHistory, windowStart)
                 refused == AtCapacity(validRequests, limit)
             IN /\ requests' =
                     MapSet(requests, key,
                            IF refused THEN Refused(validRequests, now)
                            ELSE Admitted(validRequests, now))
                /\ lastCall' =
                     [op |-> "checkLimit", service |-> service,
                      result |-> IF refused THEN "false" ELSE "true",
                      full |-> Len(requestHistory) >= limit.requests,
                      expired |-> /\ requestHistory # <<>>
                                  /\ now - SeqMin(requestHistory)
                                       > limit.window,
                      alone |-> FALSE]
                /\ burst' = [burst EXCEPT ![key] =
                               BurstAfter(key, limit, validRequests, ~refused)]
  /\ waiter' = IF waiter.service = service
               THEN [waiter EXCEPT !.alone = FALSE] ELSE waiter
  /\ UNCHANGED now
  /\ UNCHANGED <<appVars, timedVars, scraperVars, extraVars>>

\* waitForLimit(service, identifier): returns at once, or suspends in
\* delay(waitTime)
LimiterWaitForLimit(service, identifier) ==
  /\ waiter = NoWaiter
  /\ LET waitTime == WaitTime(service, identifier)
     IN IF waitTime > 0
        THEN /\ waiter' = [service |-> service, until |-> now + waitTime,
                           alone |-> TRUE]
             /\ UNCHANGED lastCall
        ELSE /\ lastCall' = [NoCall EXCEPT !.op = "waitForLimit",
                                           !.service = service,
                                           !.result = "returned",
                                           !.alone = TRUE]
             /\ UNCHANGED waiter
  /\ UNCHANGED <<now, requests, burst>>
  /\ UNCHANGED <<appVars, timedVars, scraperVars, extraVars>>

\* the timer of delay(waitTime) fires, not before its time
LimiterWake ==
  /\ waiter # NoWaiter
  /\ now >= waiter.until
  /\ lastCall' = [NoCall EXCEPT !.op = "waitForLimit",
                                !.service = waiter.service,
                                !.result = "waited",
                                !.alone = waiter.alone]
  /\ waiter' = NoWaiter
  /\ UNCHANGED <<now, requests, burst>>
  /\ UNCHANGED <<appVars, timedVars, scraperVars, extraVars>>

DropAll(map, todo) == <<>>

\* the map after cleanup has visited the keys of todo
RECURSIVE CleanedUp(_, _)
CleanedUp(map, todo) ==
  IF todo = {} THEN map
  ELSE LET key == CHOOSE k \in todo : TRUE
           service == key[1]
           validRequests ==
             ValidRequests(map[key], now - limits[service].window)
           next == IF ~HasLimit(service) THEN map
                   ELSE IF validRequests = <<>> THEN MapDelete(map, key)
                   ELSE MapSet(map, key, validRequests)
       IN CleanedUp(next, todo \ {key})

\* cleanup(), called by the interval timer of startCleanup
Cleanup ==
  /\ requests' = CleanedUp(requests, DOMAIN requests)
  /\ UNCHANGED <<now, lastCall, waiter, burst>>
  /\ UNCHANGED <<appVars, timedVars, scraperVars, extraVars>>

\* time passes
Tick ==
  /\ now < MaxTime
  /\ now' = now + 1
  /\ UNCHANGED <<requests, lastCall, waiter, burst>>
  /\ UNCHANGED <<appVars, timedVars, scraperVars, extraVars>>

RateInit ==
  /\ ListenerAtRest
  /\ env = EmptyEnv
  /\ LimiterAtRest
  /\ TimedAtRest
  /\ ScraperAtRest
  /\ proc = NoProcess
  /\ simp = NewFilterEngine("fallback", TRUE)

RateNext ==
  \/ \E service \in CalledServices, identifier \in Identifiers :
        CheckLimit(service, identifier)
  \/ \E service \in CalledServices, identifier \in Identifiers :
        LimiterWaitForLimit(service, identifier)
  \/ LimiterWake
  \/ Cleanup
  \/ Tick

RateSpec == RateInit /\ [][RateNext]_vars

\* ----- runWorkflow with the clock ----------------------------------------
\* The loops of runWorkflow (index.js:58-93) with the times of their awaits.
\* A record is one more to deliver; the clock ticks between the steps.

\* delay(parseInt(process.env.REQUEST_DELAY_MS) || 2000), in ticks
RequestDelayTicks == 2
\* delay(1000), in ticks
DeliveryDelayTicks == 1

\* the timestamps of a history that are still inside the window of service,
\* and the new one
Logged(history, service) ==
  Append(ValidRequests(history, now - limits[service].window), now)

\* runWorkflow is called while no run is active
TimedStart ==
  /\ timed.pc = "idle"
  /\ timed' = [TimedIdle EXCEPT !.pc = "searchTweets", !.queryIdx = 1]
  /\ UNCHANGED <<posts, fetches>>
  /\ UNCHANGED <<appVars, limiterVars, scraperVars, extraVars>>

\* await searchTweets(query): the request goes to twitter.com (USE_NITTER is
\* not set); found records are pushed; delay(REQUEST_DELAY_MS) is started
TimedSearchTweets ==
  /\ timed.pc = "searchTweets"
  /\ \E n \in 0..MaxFound :
        timed' = [timed EXCEPT !.pc = "queryDelay",
                               !.found = timed.found + n,
                               !.until = now + RequestDelayTicks]
  /\ fetches' = Logged(fetches, "twitter")
  /\ UNCHANGED posts
  /\ UNCHANGED <<appVars, limiterVars, scraperVars, extraVars>>

\* the delay between two queries is over: the next query, or the filters
\* (which keep some of the records found) and the first waitForLimit
TimedQueryDelay ==
  /\ timed.pc = "queryDelay"
  /\ now >= timed.until
  /\ IF timed.queryIdx < NumQueries
     THEN timed' = [timed EXCEPT !.pc = "searchTweets",
                                 !.queryIdx = timed.queryIdx + 1]
     ELSE \E new \in 0..timed.found :
            timed' = IF new = 0 THEN TimedIdle
                     ELSE [TimedIdle EXCEPT !.pc = "waitForLimit",
                                            !.left = new]
  /\ UNCHANGED <<posts, fetches>>
  /\ UNCHANGED <<appVars, limiterVars, scraperVars, extraVars>>

\* await rateLimiter.waitForLimit('discord'): returns when its delay is over
TimedWaitForLimit ==
  /\ timed.pc = "waitForLimit"
  /\ timed' = [timed EXCEPT !.pc = "sendTweet",
                            !.until = now + WaitTime("discord", "default")]
  /\ UNCHANGED <<posts, fetches>>
  /\ UNCHANGED <<appVars, limiterVars, scraperVars, extraVars>>

\* await sendTweet(tweet); markAsSent and the loggers; delay(1000) is started
TimedSendTweet ==
  /\ timed.pc = "sendTweet"
  /\ now >= timed.until
  /\ timed' = [timed EXCEPT !.pc = "deliveryDelay",
                            !.until = now + DeliveryDelayTicks]
  /\ posts' = Logged(posts, "discord")
  /\ UNCHANGED fetches
  /\ UNCHANGED <<appVars, limiterVars, scraperVars, extraVars>>

\* the delay between two deliveries is over: the next record or the return
TimedDeliveryDelay ==
  /\ timed.pc = "deliveryDelay"
  /\ now >= timed.until
  /\ timed' = IF timed.left > 1
              THEN [timed EXCEPT !.pc = "waitForLimit",
                                 !.left = timed.left - 1]
              ELSE TimedIdle
  /\ UNCHANGED <<posts, fetches>>
  /\ UNCHANGED <<appVars, limiterVars, scraperVars, extraVars>>

\* time passes
RunTick ==
  /\ now < MaxRunTime
  /\ now' = now + 1
  /\ UNCHANGED <<requests, lastCall, waiter, burst>>
  /\ UNCHANGED <<appVars, timedVars, scraperVars, extraVars>>

TimedNext ==
  \/ TimedStart
  \/ TimedSearchTweets
  \/ TimedQueryDelay
  \/ TimedWaitForLimit
  \/ TimedSendTweet
  \/ TimedDeliveryDelay
  \/ RunTick

TimedSpec == RateInit /\ [][TimedNext]_vars

\* ----- calls of searchTweets ----------------------------------------------

\* searchTweets(query) is called: retries = 0 and the loop is entered
SearchCall ==
  /\ search.pc \in {"idle", "done"}
  /\ search' =
       IF LoopGuard(0, search.maxRetries)
       THEN [search EXCEPT !.pc = "attempt", !.retries = 0, !.attempts = 0,
                           !.waits = <<>>, !.result = NoResult,
                           !.world = NoWorld]
       ELSE [search EXCEPT !.pc = "done", !.retries = 0, !.attempts = 0,
                           !.waits = <<>>, !.result = Undefined,
                           !.world = NoWorld]
  /\ UNCHANGED <<appVars, limiterVars, timedVars, extraVars>>

\* one pass of the try: the strategy returns a list, or throws into the
\* catch, which counts the retry and rethrows or starts the backoff delay
SearchAttempt ==
  /\ search.pc = "attempt"
  /\ \E w \in Worlds :
        LET r == Attempt(search.variant, search.useNitter, w)
            retries == search.retries + 1
        IN search' =
             IF r.kind = "list"
             THEN [search EXCEPT !.pc = "done", !.result = r, !.world = w,
                                 !.attempts = @ + 1]
             ELSE IF Exhausted(retries, search.maxRetries)
             THEN [search EXCEPT !.pc = "done", !.result = r, !.world = w,
                                 !.attempts = @ + 1, !.retries = retries]
             ELSE [search EXCEPT !.pc = "backoff", !.world = w,
                                 !.attempts = @ + 1, !.retries = retries]
  /\ UNCHANGED <<appVars, limiterVars, timedVars, extraVars>>

\* the backoff delay is over: the loop condition is tested again
SearchBackoff ==
  /\ search.pc = "backoff"
  /\ search' =
       IF LoopGuard(search.retries, search.maxRetries)
       THEN [search EXCEPT !.pc = "attempt",
                           !.waits = Append(@, BackoffMs(search.retries))]
       ELSE [search EXCEPT !.pc = "done", !.result = Undefined,
                           !.waits = Append(@, BackoffMs(search.retries))]
  /\ UNCHANGED <<appVars, limiterVars, timedVars, extraVars>>

SearchInit ==
  /\ ListenerAtRest
  /\ env = EmptyEnv
  /\ LimiterAtRest
  /\ TimedAtRest
  /\ proc = NoProcess
  /\ simp = NewFilterEngine("fallback", TRUE)
  /\ \E variant \in Variants, useNitter \in BOOLEAN, parsed \in ParsedRetries :
        search = NewScraper(variant, useNitter, parsed)

SearchNext ==
  \/ SearchCall
  \/ SearchAttempt
  \/ SearchBackoff

SearchSpec == SearchInit /\ [][SearchNext]_vars

\* every request has a timeout and every timer fires
FairSearchSpec ==
  SearchSpec /\ WF_vars(SearchAttempt) /\ WF_vars(SearchBackoff)

\* ----- main() ------------------------------------------------------------
\* main() constructs the listener and awaits start(); a rejection of start()
\* is logged and ends the process with process.exit(1).

\* new PodhaTwitterListener(): the constructors read process.env
MainInit ==
  /\ ListenerAtRest
  /\ LimiterAtRest
  /\ TimedAtRest
  /\ ScraperAtRest
  /\ \E raw \in RawWebhooks, scheduler \in BOOLEAN :
        /\ env = [EmptyEnv EXCEPT !.webhookUrl = validateWebhookUrl(raw)]
        /\ proc = [state |-> "new", scheduler |-> scheduler,
                   rawWebhook |-> raw]
  /\ simp = NewFilterEngine("fallback", TRUE)

\* start(): await this.initialize(), which rethrows what it caught
Initialize ==
  /\ proc.state = "new"
  /\ \E ok \in BOOLEAN :
        proc' = [proc EXCEPT !.state = IF ok THEN "initialized"
                                       ELSE "exited"]
  /\ UNCHANGED <<appVars, limiterVars, timedVars, scraperVars, simp>>

\* start(): await this.runWorkflow(), the run made once immediately
EagerRun ==
  /\ proc.state = "initialized"
  /\ lastOutcome = "none"
  /\ RunWorkflowStart(1)

\* start() after the eager run: its error rejects start() and main() exits;
\* else the scheduler is started if ENABLE_SCHEDULER is 'true'
AfterEagerRun ==
  /\ proc.state = "initialized"
  /\ lastOutcome # "none"
  /\ pc[1] = "idle"
  /\ proc' = [proc EXCEPT !.state =
                IF lastOutcome # "returned" THEN "exited"
                ELSE IF proc.scheduler THEN "scheduled" ELSE "unscheduled"]
  /\ UNCHANGED <<appVars, limiterVars, timedVars, scraperVars, simp>>

\* the cron job fires: try { await callback() } catch { logger.error }
CronTick(c) ==
  /\ proc.state = "scheduled"
  /\ \/ RunWorkflowStart(c)
     \/ RunWorkflowSkip(c)

\* a step of a run of the living process
MainRunStep(c) ==
  /\ proc.state # "exited"
  /\ RunStep(c)

MainNext ==
  \/ Initialize
  \/ EagerRun
  \/ AfterEagerRun
  \/ \E c \in Calls : CronTick(c)
  \/ \E c \in Calls : MainRunStep(c)

MainSpec == MainInit /\ [][MainNext]_vars

\* ----- queries and requests ------------------------------------------------

\* addCustomFilter(name, query, description): one custom filter is added
AddCustomFilter ==
  /\ Len(simp.filters) = Len(ConfiguredQueries)
  /\ ~ simp.expanded
  /\ \E query \in CustomQueries :
        simp' = [simp EXCEPT !.filters = Append(@, query)]
  /\ UNCHANGED <<appVars, limiterVars, timedVars, scraperVars, proc>>

\* runWorkflow: const queries = this.filterEngine.getSearchQueries()
GetSearchQueries ==
  /\ ~ simp.expanded
  /\ simp' = [simp EXCEPT !.expanded = TRUE,
                          !.queries = getSearchQueries(simp.filters),
                          !.terms = [i \in 1..Len(simp.filters) |->
                                       filterTerms(simp.filters[i])],
                          !.queryIdx = 0, !.request = NoRequest]
  /\ UNCHANGED <<appVars, limiterVars, timedVars, scraperVars, proc>>

\* runWorkflow: the next query of the loop is handed to searchTweets, whose
\* strategy builds and sends its request
FetchQuery ==
  /\ simp.expanded
  /\ simp.queryIdx < Len(simp.queries)
  /\ \E rejected \in BOOLEAN :
        simp' = [simp EXCEPT
                   !.queryIdx = @ + 1,
                   !.request = RequestFor(simp.variant, simp.useNitter,
                                          simp.queries[simp.queryIdx + 1],
                                          rejected)]
  /\ UNCHANGED <<appVars, limiterVars, timedVars, scraperVars, proc>>

QueryInit ==
  /\ ListenerAtRest
  /\ env = EmptyEnv
  /\ LimiterAtRest
  /\ TimedAtRest
  /\ ScraperAtRest
  /\ proc = NoProcess
  /\ \E variant \in Variants, useNitter \in BOOLEAN :
        simp = NewFilterEngine(variant, useNitter)

QueryNext ==
  \/ AddCustomFilter
  \/ GetSearchQueries
  \/ FetchQuery

QuerySpec == QueryInit /\ [][QueryNext]_vars

\* ----- properties --------------------------------------------------------

AfterMarkLabels == {"airtableLog", "notionLog", "deliveryDelay"}

\* the record of the delivery loop's current iteration
CurrentTweet(c) == frame[c].newTweets[frame[c].tweetIdx]

\* C1: once a record has been posted to the sink and the run's
\* markAsSent(tweet.id) has resolved, wasSent(id) is true, and no later run
\* posts a record of that id again.
C1_NoRedelivery ==
  /\ \A i \in delivered : wasSent(tweetsTable, i)
  /\ \A c \in Calls :
       (pc[c] = "markAsSent" /\ frame[c].sendResult = "success")
         => CurrentTweet(c).id \notin delivered

\* C2: at most one body of runWorkflow is active; a call that arrives while
\* isRunning is set changes neither the store nor any run, starts nothing,
\* ends as skipped (not as an error) and leaves isRunning set.
C2_SingleRun ==
  [][ /\ Cardinality({c \in Calls : pc'[c] # "idle"}) <= 1
      /\ (lastOutcome' = "skipped" /\ lastOutcome # "skipped")
           => /\ isRunning /\ isRunning'
              /\ UNCHANGED <<tweetsTable, pc, frame, delivered>> ]_vars

C2_Witness ==
  /\ lastOutcome = "skipped"
  /\ isRunning
  /\ \E c \in Calls : pc[c] = "markAsSent"

\* C3: every run that has set isRunning clears it: the flag is never set
\* while no run is active, and a set flag is eventually cleared, whether the
\* run returns or throws.
C3_FlagCleared ==
  /\ [](Active = {} => ~isRunning)
  /\ (isRunning ~> ~isRunning)

C3_Witness ==
  /\ ~isRunning
  /\ lastOutcome \in {"FetchExhaustedError", "PersistenceReadError",
                      "PersistenceWriteError"}

\* C4: markAsSent is called for a record only after sendTweet has reported
\* success for it, and a record whose send failed is not marked delivered.
C4_MarkOnlyAfterSuccess ==
  \A c \in Calls :
    /\ pc[c] = "markAsSent" => frame[c].sendResult = "success"
    /\ (pc[c] \in AfterMarkLabels /\ frame[c].sendResult = "failure")
         => ~wasSent(tweetsTable, CurrentTweet(c).id)

\* C5: the delivered flag of an id never goes back from true to false,
\* whatever store operation runs.
C5_FlagMonotonic ==
  [][\A i \in Ids : wasSent(tweetsTable, i) => wasSent(tweetsTable', i)]_vars

\* C6: right after markAsSent(id, record) has resolved, wasSent(id) is true.
C6_MarkThenWasSent ==
  (client.op = "markAsSent" /\ client.data # NoData
     /\ client.status = "resolved")
    => wasSent(tweetsTable, client.id)

C6_Witness ==
  /\ client.op = "markAsSent"
  /\ client.data # NoData
  /\ client.status = "resolved"
  /\ client.id = "t1"
  /\ ~client.repeat

\* C7: a markAsSent(id, record) that repeats one that has resolved resolves
\* too (unless the database reports an I/O error), leaves exactly one row of
\* that id, and leaves wasSent(id) true; no id ever has two rows.
C7_MarkAsSentIdempotent ==
  /\ \A i \in Ids : Cardinality(RowsOf(tweetsTable, i)) <= 1
  /\ (client.op = "markAsSent" /\ client.repeat /\ ~client.faulted
        /\ client.status # "pending")
       => /\ client.status = "resolved"
          /\ Cardinality(RowsOf(tweetsTable, client.id)) = 1
          /\ wasSent(tweetsTable, client.id)

C7_Witness ==
  /\ client.op = "markAsSent"
  /\ client.repeat
  /\ client.status = "resolved"

\* C8: a write error of markAsSent in the delivery loop does not end the
\* run: no call of runWorkflow throws the store's write error.
C8_WriteErrorContained == lastOutcome # "PersistenceWriteError"

\* the records among the first n of uniqueTweets whose id was not sent when
\* filterNewTweets was called
Unsent(c, n) ==
  SelectSeq(SubSeq(frame[c].uniqueTweets, 1, n),
            LAMBDA r : r.id \notin frame[c].sentBefore)

\* C9: filterNewTweets returns exactly the input records whose id had
\* wasSent false before the call, in input order (after each wasSent that
\* resolves, newTweets is that selection of the records read so far; a step
\* of the call in filterNewTweets is one that changes its frame).
C9_FilterExact ==
  [][\A c \in Calls :
       (pc[c] = "wasSent" /\ frame'[c] # frame[c]
          /\ ~(pc'[c] = "idle" /\ lastOutcome' = "PersistenceReadError"))
         => frame'[c].newTweets = Unsent(c, frame[c].tweetIdx)]_vars

C9_Witness ==
  \E c \in Calls :
    /\ pc[c] = "wasSent"
    /\ frame[c].tweetIdx = 2
    /\ frame[c].uniqueTweets[1].id \in frame[c].sentBefore
    /\ frame[c].uniqueTweets[2].id \notin frame[c].sentBefore
    /\ frame[c].newTweets = <<>>

\* the positions of list that hold the first record of their id
FirstPositions(list) ==
  {i \in 1..Len(list) : \A j \in 1..(i - 1) : list[j].id # list[i].id}

\* the k-th smallest element of a set of positions
Nth(S, k) == CHOOSE i \in S : Cardinality({j \in S : j <= i}) = k

\* C10: removeDuplicates returns the first record of each id of its input,
\* in input order, with pairwise distinct ids, and is idempotent.
C10_FirstOccurrences ==
  \A c \in Calls :
    pc[c] = "wasSent" =>
      LET input == frame[c].allTweets
          output == frame[c].uniqueTweets
      IN /\ Len(output) = Cardinality(FirstPositions(input))
         /\ \A k \in 1..Len(output) :
              output[k] = input[Nth(FirstPositions(input), k)]
         /\ \A k, l \in 1..Len(output) :
              output[k].id = output[l].id => k = l
         /\ removeDuplicates(output) = output

C10_Witness ==
  \E c \in Calls :
    /\ pc[c] = "wasSent"
    /\ Len(frame[c].allTweets) = 2
    /\ frame[c].allTweets[1].id = frame[c].allTweets[2].id
    /\ frame[c].allTweets[1].text # frame[c].allTweets[2].text
    /\ frame[c].uniqueTweets = <<frame[c].allTweets[1]>>

\* the recorded timestamps of a key that lie inside its current window
InWindow(key) ==
  ValidRequests(HistoryOf(key), now - limits[key[1]].window)

\* C11: whatever checkLimit, waitForLimit and cleanup calls are made and
\* however time passes, no key of a configured service has more recorded
\* timestamps inside its current window than the ceiling of the service, and
\* a checkLimit that refuses records no timestamp.
C11_CeilingRespected ==
  /\ [](\A key \in LimitedKeys :
          Len(InWindow(key)) <= limits[key[1]].requests)
  /\ [][lastCall'.result = "false" =>
          \A key \in LimitedKeys :
            Len(HistoryOf(key))' <= Len(HistoryOf(key))]_vars

C11_Witness ==
  /\ lastCall.op = "checkLimit"
  /\ lastCall.result = "false"
  /\ Len(InWindow(KeyOf("discord", "default"))) = limits.discord.requests
  /\ waiter # NoWaiter

TrueTimes(n) == [j \in 1..n |-> TRUE]

\* C12: of ceiling + 1 checkLimit calls on a key that start from an empty
\* window and lie within one window, the first ceiling return true and the
\* last returns false.
C12_CeilingPlusOneRefused ==
  \A key \in LimitedKeys :
    LET ceiling == limits[key[1]].requests
        b == burst[key]
    IN /\ Len(b.results) <= ceiling => b.results = TrueTimes(Len(b.results))
       /\ (Len(b.results) = ceiling + 1
             /\ b.last - b.start < limits[key[1]].window)
            => b.results = Append(TrueTimes(ceiling), FALSE)

C12_Witness ==
  LET b == burst[KeyOf("discord", "default")]
  IN /\ Len(b.results) = limits.discord.requests + 1
     /\ b.last - b.start = limits.discord.window - 1
     /\ b.start > 0

\* C13: a checkLimit made when more than the window has passed since the
\* oldest recorded timestamp of its key returns true and records the
\* request, also when the key was at capacity.
C13_ExpiredAdmits ==
  [][\A service \in {s \in CalledServices : HasLimit(s)},
        identifier \in Identifiers :
       LET key == KeyOf(service, identifier)
       IN (CheckLimit(service, identifier)
             /\ HistoryOf(key) # <<>>
             /\ now - SeqMin(HistoryOf(key)) > limits[service].window)
            => /\ lastCall'.result = "true"
               /\ requests'[key] # <<>>
               /\ requests'[key][Len(requests'[key])] = now]_vars

C13_Witness ==
  /\ lastCall.op = "checkLimit"
  /\ lastCall.result = "true"
  /\ lastCall.full
  /\ lastCall.expired

\* C14: the sendTweet calls of runWorkflow inside any one window of the
\* discord limit are never more than its ceiling.
C14_DeliveriesWithinCeiling ==
  Len(ValidRequests(posts, now - limits.discord.window))
    <= limits.discord.requests

\* C15: every request searchTweets issues has been admitted by the rate
\* limiter under the key of its source: its time is in the recorded history
\* of that key.
C15_FetchesRateLimited ==
  \A i \in 1..Len(fetches) :
    \E j \in 1..Len(HistoryOf(KeyOf("twitter", "default"))) :
      HistoryOf(KeyOf("twitter", "default"))[j] = fetches[i]

\* no live source tried by the latest attempt has yielded an item
NoLiveItems ==
  LET w == search.world
      noNitter == ~w.nitterOk \/ w.items = 0
  IN IF search.useNitter THEN noNitter
     ELSE (w.page # "loaded" \/ (w.m1 = 0 /\ w.m2 = 0)) /\ noNitter

C18_SinkFailureAborts ==
  [][\A c \in Calls :
       (pc[c] = "sendTweet" /\ pc'[c] # "sendTweet")
         => \/ frame'[c].sendResult = "success"
            \/ pc'[c] = "idle" /\ lastOutcome' = "DeliveryError"]_vars

\* the run of c ends with outcome (a thrown error or the return), having
\* sent nothing and with the store as it was when the run started
EndsBeforeDelivery(c, outcome) ==
  /\ lastOutcome' = outcome
  /\ frame[c].sends = 0
  /\ tweetsTable' = frame[c].storeAtStart
  /\ delivered' = delivered

\* C19: a run that ends in its query loop has thrown the error of
\* searchTweets, and a run that ends in filterNewTweets has thrown the
\* error of wasSent unless it returns for want of new records; either way
\* it has sent no record and the store is as it was when the run started.
C19_EarlyFailureDeliversNothing ==
  [][\A c \in Calls :
       /\ (pc[c] = "searchTweets" /\ pc'[c] = "idle")
            => EndsBeforeDelivery(c, "FetchExhaustedError")
       /\ (pc[c] = "wasSent" /\ pc'[c] = "idle")
            => \/ EndsBeforeDelivery(c, "PersistenceReadError")
               \/ EndsBeforeDelivery(c, "returned")]_vars

C19_Witness ==
  /\ Active = {}
  /\ lastOutcome \in {"FetchExhaustedError", "PersistenceReadError"}
  /\ tweetsTable = SampleRows
  /\ delivered = {}

\* C20: a logger is called only when it is enabled; a logTweet whose request
\* fails does not end the run and changes neither the store nor an outcome;
\* and after the delay the next new record is delivered, whatever the
\* loggers have met.
C20_LoggerFailureContained ==
  /\ [](\A c \in Calls :
          /\ pc[c] = "airtableLog" => env.airtableEnabled
          /\ pc[c] = "notionLog" => env.notionEnabled
          /\ "airtable" \in frame[c].logErrors => env.airtableEnabled
          /\ "notion" \in frame[c].logErrors => env.notionEnabled)
  /\ [][\A c \in Calls :
          /\ (pc[c] \in {"airtableLog", "notionLog"} /\ pc'[c] # pc[c])
               => /\ pc'[c] \in {"notionLog", "deliveryDelay"}
                  /\ tweetsTable' = tweetsTable
                  /\ lastOutcome' = lastOutcome
          /\ (pc[c] = "deliveryDelay" /\ pc'[c] # pc[c]
                /\ frame[c].tweetIdx < Len(frame[c].newTweets))
               => /\ pc'[c] = "waitForLimit"
                  /\ frame'[c].tweetIdx = frame[c].tweetIdx + 1
                  /\ frame'[c].newTweets = frame[c].newTweets]_vars

C20_Witness ==
  \E c \in Calls :
    /\ pc[c] = "waitForLimit"
    /\ frame[c].tweetIdx = 2
    /\ frame[c].logErrors = {"airtable", "notion"}
    /\ wasSent(tweetsTable, frame[c].newTweets[1].id)

\* C21: with DISCORD_WEBHOOK_URL missing or still the placeholder, the
\* process does not start: no run is ever active, the store is never
\* written and the scheduler is never started.
C21_RefusesToStart ==
  proc.rawWebhook \in {"unset", "placeholder"}
    => /\ Active = {}
       /\ tweetsTable = SampleRows
       /\ proc.state \notin {"scheduled", "unscheduled"}

\* C22: with the scheduler enabled, a run that has thrown the error of the
\* fetch or of a store write has not ended the process.
C22_ProcessSurvivesRunFailure ==
  (proc.scheduler /\ Active = {}
     /\ lastOutcome \in {"FetchExhaustedError", "PersistenceWriteError"})
    => proc.state # "exited"

\* C23: no query of the list made by getSearchQueries and no q parameter of
\* a request is the empty string.
C23_NoEmptySearch ==
  /\ \A i \in 1..Len(simp.queries) : simp.queries[i] # <<>>
  /\ simp.request.built => simp.request.q # <<>>

\* the terms as claimed: phrases between two quotes and, outside them, the
\* words that are no filter token, operator or parenthesis, as they appear
RECURSIVE TermsInOrderFrom(_, _, _, _)
TermsInOrderFrom(query, i, quoted, phrase) ==
  IF i > Len(query) THEN <<>>
  ELSE LET lexeme == query[i]
       IN IF lexeme = Quote
          THEN IF quoted
               THEN (IF phrase = <<>> THEN <<>> ELSE <<phrase>>)
                      \o TermsInOrderFrom(query, i + 1, FALSE, <<>>)
               ELSE TermsInOrderFrom(query, i + 1, TRUE, <<>>)
          ELSE IF quoted
          THEN TermsInOrderFrom(query, i + 1, TRUE, Append(phrase, lexeme))
          ELSE IF lexeme \in {Space, "(", ")", "AND", "OR",
                              "filter:blue_verified", "min_faves:3"}
          THEN TermsInOrderFrom(query, i + 1, FALSE, <<>>)
          ELSE <<(<<lexeme>>)>> \o TermsInOrderFrom(query, i + 1, FALSE, <<>>)

TermsInOrder(query) == TermsInOrderFrom(query, 1, FALSE, <<>>)

Balanced(query) ==
  Cardinality({k \in 1..Len(query) : query[k] = Quote}) % 2 = 0

\* C24: for a query whose quotes are paired, simplifyQuery returns the
\* quoted phrases and plain words of the query in their order of
\* appearance, cut to the cap and joined by spaces: the simplified string
\* of every filter in the list of getSearchQueries (cap 2) and the string
\* the first scraper requests (cap 3).
C24_SimplifyInOrder ==
  /\ simp.expanded =>
       \A i \in 1..Len(simp.filters) :
          Balanced(simp.filters[i]) =>
            \E j \in 1..Len(simp.queries) :
               simp.queries[j] =
                 Join(slice(TermsInOrder(simp.filters[i]), FilterCap), Space)
  /\ (simp.request.built /\ simp.variant = "fallback"
        /\ Balanced(simp.request.query)) =>
       simp.request.simplified =
         Join(slice(TermsInOrder(simp.request.query), ScraperCap), Space)

C26_FailOpen ==
  [][(lastCall' # lastCall /\ lastCall'.service \notin DOMAIN limits) =>
       /\ lastCall'.op = "checkLimit" => lastCall'.result = "true"
       /\ lastCall'.op = "waitForLimit" => lastCall'.result = "returned"
       /\ requests' = requests
       /\ \A key \in DOMAIN requests' : key[1] # lastCall'.service
       /\ waiter' = waiter]_vars

C26_Witness ==
  /\ lastCall.op = "checkLimit"
  /\ lastCall.service = "telegram"
  /\ lastCall.result = "true"
  /\ \E key \in DOMAIN requests :
        AtCapacity(ValidRequests(requests[key], now - limits[key[1]].window),
                   limits[key[1]])

\* the positions in the history of a key whose timestamps are younger than
\* the window of its service, at the present time and at time t
FreshAt(history, service, t) ==
  {i \in 1..Len(history) : history[i] + limits[service].window > t}

Fresh(key) == FreshAt(HistoryOf(key), key[1], now)

\* C28: a waitForLimit call on a key with as many timestamps in its window
\* as the ceiling suspends until the oldest of them plus the window, and
\* with fewer it returns without suspending; neither its start nor its
\* return changes the histories; when no other checkLimit was made on the
\* service since the call started, the checkLimit that follows its return
\* returns true.
C28_WaitThenAdmit ==
  [][/\ (waiter = NoWaiter /\ waiter' # NoWaiter) =>
          LET key == KeyOf(waiter'.service, "default")
              limit == limits[waiter'.service]
          IN /\ Cardinality(Fresh(key)) >= limit.requests
             /\ waiter'.until - now =
                  Min({requests[key][i] : i \in Fresh(key)})
                    + limit.window - now
             /\ requests' = requests
     /\ (lastCall' # lastCall /\ lastCall'.op = "waitForLimit"
           /\ lastCall'.result = "returned"
           /\ lastCall'.service \in DOMAIN limits) =>
          /\ Cardinality(Fresh(KeyOf(lastCall'.service, "default")))
               < limits[lastCall'.service].requests
          /\ requests' = requests
          /\ waiter' = waiter
     /\ (waiter # NoWaiter /\ waiter' = NoWaiter) =>
          /\ now >= waiter.until
          /\ requests' = requests
     /\ (lastCall.op = "waitForLimit" /\ lastCall.alone
           /\ lastCall'.op = "checkLimit"
           /\ lastCall'.service = lastCall.service) =>
          lastCall'.result = "true"]_vars

C28_Witness ==
  /\ lastCall.op = "waitForLimit"
  /\ lastCall.result = "waited"
  /\ lastCall.alone
  /\ lastCall.service = "discord"
  /\ Len(HistoryOf(KeyOf("discord", "default"))) = limits.discord.requests

\* a step that changes the histories and records no request: a cleanup
RemovesOnly ==
  /\ requests' # requests
  /\ \A key \in DOMAIN requests' :
        /\ key \in DOMAIN requests
        /\ Cardinality({i \in 1..Len(requests'[key]) :
                          requests'[key][i] = now})
             <= Cardinality({i \in 1..Len(requests[key]) :
                               requests[key][i] = now})

\* C29: a cleanup leaves of every history the timestamps inside the window,
\* in their order, and drops the keys that have none; so at the time of
\* the cleanup and at every later time the timestamps a checkLimit on a
\* key counts are the same with and without the cleanup.
C29_CleanupExact ==
  [][RemovesOnly =>
       /\ \A key \in DOMAIN requests :
             LET kept == SelectSeq(requests[key],
                           LAMBDA t : t + limits[key[1]].window > now)
             IN IF kept = <<>> THEN key \notin DOMAIN requests'
                ELSE key \in DOMAIN requests' /\ requests'[key] = kept
       /\ \A key \in LimitedKeys, t \in now..(MaxTime + 1) :
             LET after == IF key \in DOMAIN requests'
                          THEN requests'[key] ELSE <<>>
             IN /\ {after[i] : i \in FreshAt(after, key[1], t)}
                     = {HistoryOf(key)[i] :
                          i \in FreshAt(HistoryOf(key), key[1], t)}
                /\ Cardinality(FreshAt(after, key[1], t))
                     = Cardinality(FreshAt(HistoryOf(key), key[1], t))]_vars

\* a key that was used is gone while another key still has a history, and a
\* waitForLimit call is suspended
C29_Witness ==
  /\ waiter # NoWaiter
  /\ \E key \in LimitedKeys :
        key \notin DOMAIN requests /\ burst[key].results # <<>>
  /\ \E key \in DOMAIN requests : Len(requests[key]) > 0

DeliveryLabels ==
  {"waitForLimit", "sendTweet", "markAsSent", "airtableLog", "notionLog",
   "deliveryDelay"}

\* the await of the delivery loop that follows the await at label
NextDelivery(label) ==
  CASE label = "waitForLimit" -> "sendTweet"
    [] label = "sendTweet" -> "markAsSent"
    [] label = "markAsSent" ->
         IF env.airtableEnabled THEN "airtableLog"
         ELSE IF env.notionEnabled THEN "notionLog" ELSE "deliveryDelay"
    [] label = "airtableLog" ->
         IF env.notionEnabled THEN "notionLog" ELSE "deliveryDelay"
    [] label = "notionLog" -> "deliveryDelay"
    [] label = "deliveryDelay" -> "waitForLimit"

\* C27: a run passes for each new record, in the order of the list, the
\* awaits waitForLimit, sendTweet, markAsSent, the enabled loggers and the
\* delay; the sink is called for record i when it has been called for the
\* i - 1 records before and their iterations are over; a write of the
\* store is made by the one run that is at markAsSent, and at most one run
\* is in the loop.
C27_SequentialDelivery ==
  [][/\ \A c \in Calls :
          (pc[c] \in DeliveryLabels /\ pc'[c] # pc[c]) =>
             \/ pc'[c] = "idle"
             \/ /\ pc'[c] = NextDelivery(pc[c])
                /\ frame'[c].newTweets = frame[c].newTweets
                /\ frame'[c].tweetIdx =
                     IF pc[c] = "deliveryDelay" THEN frame[c].tweetIdx + 1
                     ELSE frame[c].tweetIdx
     /\ \A c \in Calls :
          frame'[c].sends # frame[c].sends /\ pc'[c] # "idle"
             => IF pc[c] = "sendTweet"
                THEN /\ frame'[c].sends = frame[c].sends + 1
                     /\ frame[c].sends = frame[c].tweetIdx - 1
                ELSE frame'[c].sends = 0 /\ pc'[c] \notin DeliveryLabels
     /\ tweetsTable' # tweetsTable =>
          \E c \in Calls :
             /\ pc[c] = "markAsSent"
             /\ pc'[c] # pc[c]
             /\ \A d \in Calls \ {c} : pc[d] \notin DeliveryLabels
     /\ Cardinality({c \in Calls : pc'[c] \in DeliveryLabels}) <= 1]_vars

C27_Witness ==
  \E c \in Calls :
     /\ pc[c] = "sendTweet"
     /\ frame[c].tweetIdx = 2
     /\ frame[c].sends = 1
     /\ env.airtableEnabled
     /\ env.notionEnabled

\* C30: every record of a list returned by searchTweets has an id that is
\* not null.
C30_IdsNotNull ==
  search.result.kind = "list" =>
    \A i \in 1..Len(search.result.ids) : search.result.ids[i] # NULL

====
